---- MODULE Spec2Model ----
(***************************************************************************)
(* Model of pkg/cache/groupcache.go: the peer-membership refresh loop      *)
(* started by NewGroupcacheWithConfig, the GetterFunc loader registered    *)
(* with the galaxy, and Groupcache.Fetch.                                  *)
(***************************************************************************)
EXTENDS Integers, Sequences, FiniteSets, TLC

(***************************************************************************)
(* Bounds of the model.                                                    *)
(***************************************************************************)
MaxIter == 3        \* refresh iterations counted before the counter saturates
MaxKeys == 2        \* longest key list handed to Fetch
MaxNow == 1         \* largest value time.Now() returns
MaxStores == 2      \* Store calls counted

PeerUniverse == {"p1", "p2"}    \* addresses the resolver can deliver

VARIABLES
    \* ---- refresh goroutine (groupcache.go:103-118) ----
    refPc,          \* "resolve": inside Resolve; "publish": before universe.Set; "wait": at <-ticker.C
    provAddrs,      \* dnsGroupcacheProvider.Addresses()
    peers,          \* membership view last applied by universe.Set
    tickPending,    \* ticker.C holds a tick (channel of capacity 1)
    attemptBit,     \* parity of the number of resolve attempts started
    iter,           \* number of the current iteration, saturating at MaxIter
    peersBefore,    \* history: peers when the current iteration started
    lastResolve,    \* history: outcome of Resolve in the current iteration
    lastSet,        \* history: outcome of universe.Set in the current iteration
    setCalls,       \* history: universe.Set calls in the current iteration
    ticksTaken,     \* history: ticks consumed by the loop, saturating at MaxIter
    prevIter        \* history: how the previous iteration ended

refVars == <<refPc, provAddrs, peers, tickPending, attemptBit, iter,
             peersBefore, lastResolve, lastSet, setCalls, ticksTaken, prevIter>>

VARIABLES
    \* ---- one invocation of the GetterFunc (groupcache.go:127-225) ----
    lpc,            \* position of the invocation: "idle", "parse", "lookup", "backend",
                    \* "marshal", "read", "write", "close", "ret", "panicked"
    caller,         \* "engine": the cache engine with any Codec; "fetch": galaxy.Get from Fetch
    ldId,           \* id: the raw key, as its ':'-separated tokens
    parsed,         \* parsedData: <<>> before the parse, else <<descriptor>>
    polCfg,         \* the pointer Find...Config returned: <<>> is nil, else <<entry>>
    ctxDone,        \* ctx has been cancelled
    attrs,          \* attrs returned by bucket.Attributes
    list,           \* list appended to by the bucket.Iter callback
    delivered,      \* history: the names bucket.Iter handed to the callback, in order
    exists,         \* exists returned by bucket.Exists
    stream,         \* bytes the open stream rc delivers
    streamOpen,     \* rc is open
    payload,        \* bytes handed to dest.UnmarshalBinary
    envelope,       \* what dest holds: <<>> or <<[data, expire]>>
    result,         \* "none" while running, "nil", "err", or "panic"
    lookups,        \* history: Find...Config calls of this invocation
    backendOps,     \* history: bucket operations invoked by this invocation
    backendReq,     \* history: the bucket operations invoked, with their arguments
    destCalls,      \* history: dest.UnmarshalBinary calls of this invocation
    opens,          \* history: streams opened by this invocation
    closes,         \* history: Close calls of this invocation
    failedAt,       \* history: step whose error ended the invocation
    producedAt,     \* history: time.Now() at the envelope write
    \* ---- Groupcache.Fetch (groupcache.go:241-264) ----
    fpc,            \* "idle", "loop" (at the range statement), "get" (inside galaxy.Get), "done"
    fKeys,          \* keys
    fIdx,           \* index of the key the loop is at
    data,           \* data: the result map
    loadLog         \* history: per key visited, whether galaxy.Get succeeded and with what bytes

loadVars == <<lpc, caller, ldId, parsed, polCfg, ctxDone, attrs, list, delivered, exists,
              stream, streamOpen, payload, envelope, result, lookups, backendOps,
              backendReq, destCalls, opens, closes, failedAt, producedAt>>

fetchVars == <<fpc, fKeys, fIdx, data, loadLog>>

VARIABLE
    storeCalls      \* history: calls of Groupcache.Store so far

vars == <<refVars, loadVars, fetchVars, storeCalls>>

Min(a, b) == IF a < b THEN a ELSE b

(***************************************************************************)
(* The refresh goroutine.                                                  *)
(***************************************************************************)
\* Mutant of RefreshInit: the loop waits for a tick before its first Resolve.
RefreshInit_WaitsFirst ==
    /\ refPc = "wait"
    /\ provAddrs = {}
    /\ peers = {}
    /\ tickPending = FALSE
    /\ attemptBit = 0
    /\ iter = 1
    /\ peersBefore = {}
    /\ lastResolve = "none"
    /\ lastSet = "none"
    /\ setCalls = 0
    /\ ticksTaken = 0
    /\ prevIter = "none"

\* The goroutine has been started and is at its first Resolve call.
RefreshInit ==
    /\ refPc = "resolve"
    /\ provAddrs = {}
    /\ peers = {}
    /\ tickPending = FALSE
    /\ attemptBit = 0
    /\ iter = 1
    /\ peersBefore = {}
    /\ lastResolve = "none"
    /\ lastSet = "none"
    /\ setCalls = 0
    /\ ticksTaken = 0
    /\ prevIter = "none"

\* The runtime ticker delivers a tick into ticker.C; a tick that finds the
\* channel full is dropped.
Tick ==
    /\ tickPending = FALSE
    /\ tickPending' = TRUE
    /\ UNCHANGED <<refPc, provAddrs, peers, attemptBit, iter, peersBefore,
                   lastResolve, lastSet, setCalls, ticksTaken, prevIter>>
    /\ UNCHANGED <<loadVars, fetchVars, storeCalls>>

\* Resolve returns nil: the provider holds the freshly resolved addresses.
ResolveOk ==
    /\ refPc = "resolve"
    /\ \E addrs \in SUBSET PeerUniverse : provAddrs' = addrs
    /\ lastResolve' = "ok"
    /\ refPc' = "publish"
    /\ UNCHANGED <<peers, tickPending, attemptBit, iter, peersBefore, lastSet,
                   setCalls, ticksTaken, prevIter>>
    /\ UNCHANGED <<loadVars, fetchVars, storeCalls>>

\* Mutant of ResolveFail: the error is logged and the stale address list is
\* published all the same.
ResolveFail_Publishes ==
    /\ refPc = "resolve"
    /\ \E addrs \in SUBSET PeerUniverse : provAddrs' = addrs
    /\ lastResolve' = "fail"
    /\ refPc' = "publish"
    /\ UNCHANGED <<peers, tickPending, attemptBit, iter, peersBefore, lastSet,
                   setCalls, ticksTaken, prevIter>>
    /\ UNCHANGED <<loadVars, fetchVars, storeCalls>>

\* Resolve returns an error: it is logged and the iteration goes to the tick.
\* The provider may have replaced part of its address list on the way.
ResolveFail ==
    /\ refPc = "resolve"
    /\ \E addrs \in SUBSET PeerUniverse : provAddrs' = addrs
    /\ lastResolve' = "fail"
    /\ refPc' = "wait"
    /\ UNCHANGED <<peers, tickPending, attemptBit, iter, peersBefore, lastSet,
                   setCalls, ticksTaken, prevIter>>
    /\ UNCHANGED <<loadVars, fetchVars, storeCalls>>

\* universe.Set(addrs...) of the cache engine: the membership view becomes
\* addrs in one step under the engine's lock; on an error it is left as it was.
UniverseSet(view, addrs, ok) == IF ok THEN addrs ELSE view

\* Mutant of SetPeers: the goroutine brings the view up to date piecewise,
\* adding the new addresses first and dropping the old ones afterwards.
SetPeers_Piecewise ==
    /\ refPc = "publish"
    /\ \/ /\ lastSet = "none"
          /\ peers' = peers \cup provAddrs
          /\ lastSet' = "adding"
          /\ setCalls' = setCalls + 1
          /\ refPc' = "publish"
       \/ /\ lastSet = "adding"
          /\ peers' = provAddrs
          /\ lastSet' = "ok"
          /\ setCalls' = setCalls
          /\ refPc' = "wait"
    /\ UNCHANGED <<provAddrs, tickPending, attemptBit, iter, peersBefore,
                   lastResolve, ticksTaken, prevIter>>
    /\ UNCHANGED <<loadVars, fetchVars, storeCalls>>

\* Mutant of SetPeers: the configured peer list is published instead of the
\* addresses the provider resolved.
SetPeers_PublishesConfigured ==
    /\ refPc = "publish"
    /\ \E ok \in BOOLEAN :
        /\ peers' = UniverseSet(peers, PeerUniverse, ok)
        /\ lastSet' = IF ok THEN "ok" ELSE "fail"
    /\ setCalls' = setCalls + 1
    /\ refPc' = "wait"
    /\ UNCHANGED <<provAddrs, tickPending, attemptBit, iter, peersBefore,
                   lastResolve, ticksTaken, prevIter>>
    /\ UNCHANGED <<loadVars, fetchVars, storeCalls>>

\* Mutant of SetPeers: an error of universe.Set ends the goroutine.
SetPeers_ExitsOnErr ==
    /\ refPc = "publish"
    /\ \E ok \in BOOLEAN :
        /\ peers' = IF ok THEN provAddrs ELSE peers
        /\ lastSet' = IF ok THEN "ok" ELSE "fail"
        /\ refPc' = IF ok THEN "wait" ELSE "exit"
    /\ setCalls' = setCalls + 1
    /\ UNCHANGED <<provAddrs, tickPending, attemptBit, iter, peersBefore,
                   lastResolve, ticksTaken, prevIter>>
    /\ UNCHANGED <<loadVars, fetchVars, storeCalls>>

\* universe.Set(dnsGroupcacheProvider.Addresses()...); an error is logged only.
SetPeers ==
    /\ refPc = "publish"
    /\ \E ok \in BOOLEAN :
        /\ peers' = UniverseSet(peers, provAddrs, ok)
        /\ lastSet' = IF ok THEN "ok" ELSE "fail"
    /\ setCalls' = setCalls + 1
    /\ refPc' = "wait"
    /\ UNCHANGED <<provAddrs, tickPending, attemptBit, iter, peersBefore,
                   lastResolve, ticksTaken, prevIter>>
    /\ UNCHANGED <<loadVars, fetchVars, storeCalls>>

\* <-ticker.C receives one tick; the for loop starts the next iteration.
WaitTick ==
    /\ refPc = "wait"
    /\ tickPending = TRUE
    /\ tickPending' = FALSE
    /\ refPc' = "resolve"
    /\ attemptBit' = 1 - attemptBit
    /\ iter' = Min(iter + 1, MaxIter)
    /\ ticksTaken' = Min(ticksTaken + 1, MaxIter)
    /\ peersBefore' = peers
    /\ prevIter' = IF lastResolve = "fail" THEN "resolveFail"
                   ELSE IF lastSet = "fail" THEN "setFail" ELSE "setOk"
    /\ lastResolve' = "none"
    /\ lastSet' = "none"
    /\ setCalls' = 0
    /\ UNCHANGED <<provAddrs, peers>>
    /\ UNCHANGED <<loadVars, fetchVars, storeCalls>>

NextRefresh ==
    \/ Tick
    \/ ResolveOk
    \/ ResolveFail
    \/ SetPeers
    \/ WaitTick

(***************************************************************************)
(* Keys, the key parser and the caching configuration.                     *)
(***************************************************************************)
AttributesVerb == "attrs"
IterVerb == "iter"
ContentVerb == "content"
ExistsVerb == "exists"
SubrangeVerb == "subrange"

Verbs == {AttributesVerb, IterVerb, ContentVerb, ExistsVerb, SubrangeVerb}
StreamVerbs == {ContentVerb, SubrangeVerb}

Names == {"a", "b"}

\* Raw keys the engine can hand to the loader, split at ':'.
RawKeys ==
    {<<v, n>> : v \in Verbs \ {SubrangeVerb}, n \in Names}
    \cup {<<SubrangeVerb, "a", "0", "2">>, <<SubrangeVerb, "a", "1", "1">>,
          <<SubrangeVerb, "a", "1", "2">>, <<SubrangeVerb, "b", "1", "2">>}
    \cup {<<"bogus", "a">>, <<ContentVerb>>, <<SubrangeVerb, "a", "0">>,
          <<SubrangeVerb, "a", "x", "2">>, <<SubrangeVerb, "a", "2", "1">>}

\* Keys that Fetch is called with.
FetchKeys == {<<ContentVerb, "a">>, <<ExistsVerb, "a">>, <<"bogus", "a">>,
              <<IterVerb, "b">>}

\* strconv.ParseInt on the tokens the keys use: <<>> is an error.
ParseInt(tok) ==
    CASE tok = "0" -> <<0>>
      [] tok = "1" -> <<1>>
      [] tok = "2" -> <<2>>
      [] OTHER -> <<>>

\* cachekey.ParseBucketCacheKey: <<>> is an error, else <<descriptor>>.
ParseBucketCacheKey(id) ==
    IF Len(id) < 2 \/ id[1] \notin Verbs THEN <<>>
    ELSE IF id[1] = SubrangeVerb
    THEN IF Len(id) # 4 THEN <<>>
         ELSE LET s == ParseInt(id[3])
                  e == ParseInt(id[4])
              IN  IF s = <<>> \/ e = <<>> THEN <<>>
                  ELSE IF s[1] > e[1] THEN <<>>
                  ELSE <<[Verb |-> id[1], Name |-> id[2], Start |-> s[1], End |-> e[1]]>>
    ELSE IF Len(id) # 2 THEN <<>>
         ELSE <<[Verb |-> id[1], Name |-> id[2], Start |-> 0, End |-> 0]>>

\* cfg *CachingBucketConfig: name "a" is configured for every operation,
\* name "b" for none.
Configured(name) == name = "a"

FindAttributesConfig(name) == IF Configured(name) THEN <<[TTL |-> 2]>> ELSE <<>>
FindIterConfig(name) == IF Configured(name) THEN <<[TTL |-> 3]>> ELSE <<>>
FindGetConfig(name) == IF Configured(name) THEN <<[ContentTTL |-> 4]>> ELSE <<>>
FindExistConfig(name) ==
    IF Configured(name) THEN <<[ExistsTTL |-> 5, DoesntExistTTL |-> 1]>> ELSE <<>>
FindGetRangeConfig(name) == IF Configured(name) THEN <<[SubrangeTTL |-> 6]>> ELSE <<>>

\* The Find...Config call the switch makes for a verb.
FindConfig(verb, name) ==
    CASE verb = AttributesVerb -> FindAttributesConfig(name)
      [] verb = IterVerb -> FindIterConfig(name)
      [] verb = ContentVerb -> FindGetConfig(name)
      [] verb = ExistsVerb -> FindExistConfig(name)
      [] verb = SubrangeVerb -> FindGetRangeConfig(name)

\* Mutant of TTLFor: the two Exists durations are swapped.
TTLFor_Swapped(verb, entry, ex) ==
    CASE verb = AttributesVerb -> entry.TTL
      [] verb = IterVerb -> entry.TTL
      [] verb = ContentVerb -> entry.ContentTTL
      [] verb = ExistsVerb -> IF ex THEN entry.DoesntExistTTL ELSE entry.ExistsTTL
      [] verb = SubrangeVerb -> entry.SubrangeTTL

\* The duration added to time.Now() in the verb's UnmarshalBinary call.
TTLFor(verb, entry, ex) ==
    CASE verb = AttributesVerb -> entry.TTL
      [] verb = IterVerb -> entry.TTL
      [] verb = ContentVerb -> entry.ContentTTL
      [] verb = ExistsVerb -> IF ex THEN entry.ExistsTTL ELSE entry.DoesntExistTTL
      [] verb = SubrangeVerb -> entry.SubrangeTTL

(***************************************************************************)
(* What the bucket can return, and the serialisations.                     *)
(***************************************************************************)
AttrValues == {[Size |-> 0], [Size |-> 7]}
IterNames == {"a/x", "a/y"}
IterLists == {<<>>} \cup {<<n>> : n \in IterNames}
                \cup {<<n, m>> : n \in IterNames, m \in IterNames}
StreamValues == {"", "x", "xy"}

\* json.Marshal of objstore.ObjectAttributes (the size field).
MarshalAttrs(a) == "{\"size\":" \o ToString(a.Size) \o "}"

RECURSIVE JoinQuoted(_)
JoinQuoted(l) ==
    IF Len(l) = 0 THEN ""
    ELSE IF Len(l) = 1 THEN "\"" \o l[1] \o "\""
    ELSE "\"" \o l[1] \o "\"," \o JoinQuoted(Tail(l))

\* json.Marshal of a []string: a nil slice is "null".
MarshalList(l) == IF l = <<>> THEN "null" ELSE "[" \o JoinQuoted(l) \o "]"

\* strconv.FormatBool
FormatBool(b) == IF b THEN "true" ELSE "false"

(***************************************************************************)
(* The loader: the GetterFunc handed to universe.NewGalaxy.                *)
(***************************************************************************)
bktVars == <<attrs, list, delivered, exists, stream>>

LoadInit ==
    /\ lpc = "idle"
    /\ caller = "none"
    /\ ldId = <<>>
    /\ parsed = <<>>
    /\ polCfg = <<>>
    /\ ctxDone = FALSE
    /\ attrs = [Size |-> 0]
    /\ list = <<>>
    /\ delivered = <<>>
    /\ exists = FALSE
    /\ stream = ""
    /\ streamOpen = FALSE
    /\ payload = ""
    /\ envelope = <<>>
    /\ result = "none"
    /\ backendOps = 0
    /\ backendReq = <<>>
    /\ destCalls = 0
    /\ opens = 0
    /\ closes = 0
    /\ failedAt = "none"
    /\ producedAt = 0
    /\ lookups = 0

\* The locals of a fresh invocation; ctx is the caller's.
FreshLocals ==
    /\ parsed' = <<>>
    /\ polCfg' = <<>>
    /\ attrs' = [Size |-> 0]
    /\ list' = <<>>
    /\ delivered' = <<>>
    /\ exists' = FALSE
    /\ stream' = ""
    /\ streamOpen' = FALSE
    /\ payload' = ""
    /\ envelope' = <<>>
    /\ result' = "none"
    /\ backendOps' = 0
    /\ backendReq' = <<>>
    /\ destCalls' = 0
    /\ opens' = 0
    /\ closes' = 0
    /\ failedAt' = "none"
    /\ producedAt' = 0
    /\ lookups' = 0

\* The engine calls the getter for a key (a miss on this peer), with its own
\* ctx and Codec.
EngineLoad ==
    /\ lpc = "idle" /\ fpc = "idle"
    /\ \E id \in RawKeys, c \in BOOLEAN :
        /\ ldId' = id
        /\ ctxDone' = c
    /\ caller' = "engine"
    /\ lpc' = "parse"
    /\ FreshLocals
    /\ UNCHANGED <<fetchVars, refVars, storeCalls>>

\* The getter has returned to the engine.
EngineReturn ==
    /\ lpc = "ret" /\ caller = "engine"
    /\ lpc' = "idle"
    /\ caller' = "none"
    /\ ldId' = <<>>
    /\ ctxDone' = FALSE
    /\ FreshLocals
    /\ UNCHANGED <<fetchVars, refVars, storeCalls>>

\* The caller cancels ctx while the getter runs.
Cancel ==
    /\ lpc \in {"parse", "lookup", "backend", "marshal", "read", "write", "close"}
    /\ ~ctxDone
    /\ ctxDone' = TRUE
    /\ UNCHANGED <<lpc, caller, ldId, parsed, polCfg, bktVars, streamOpen, payload,
                   envelope, result, backendOps, backendReq, destCalls, opens,
                   closes, failedAt, producedAt, lookups, fetchVars, refVars, storeCalls>>

\* Mutant of LoadParse: the error of the parse is noted but not returned.
LoadParse_IgnoresErr ==
    /\ lpc = "parse"
    /\ parsed' = ParseBucketCacheKey(ldId)
    /\ failedAt' = IF parsed' = <<>> THEN "parse" ELSE failedAt
    /\ lpc' = "lookup"
    /\ UNCHANGED <<caller, ldId, polCfg, ctxDone, bktVars, streamOpen, payload,
                   envelope, result, backendOps, backendReq, destCalls, opens,
                   closes, producedAt, lookups, fetchVars, refVars, storeCalls>>

\* parsedData, err := cachekey.ParseBucketCacheKey(id); if err != nil { return err }
LoadParse ==
    /\ lpc = "parse"
    /\ parsed' = ParseBucketCacheKey(ldId)
    /\ IF parsed' = <<>>
       THEN /\ result' = "err"
            /\ failedAt' = "parse"
            /\ lpc' = "ret"
       ELSE /\ lpc' = "lookup"
            /\ UNCHANGED <<result, failedAt>>
    /\ UNCHANGED <<caller, ldId, polCfg, ctxDone, bktVars, streamOpen, payload,
                   envelope, backendOps, backendReq, destCalls, opens, closes,
                   producedAt, lookups, fetchVars, refVars, storeCalls>>

\* Mutant of LoadLookup: a nil entry is returned as an ordinary error.
LoadLookup_ReturnsErr ==
    /\ lpc = "lookup"
    /\ polCfg' = FindConfig(parsed[1].Verb, parsed[1].Name)
    /\ lookups' = lookups + 1
    /\ IF polCfg' = <<>>
       THEN /\ result' = "err"
            /\ lpc' = "ret"
       ELSE /\ lpc' = "backend"
            /\ UNCHANGED result
    /\ UNCHANGED <<caller, ldId, parsed, ctxDone, bktVars, streamOpen, payload,
                   envelope, backendOps, backendReq, destCalls, opens, closes,
                   failedAt, producedAt, fetchVars, refVars, storeCalls>>

\* switch parsedData.Verb: the case's Find...Config call, where a nil entry
\* panics; a verb that matches no case falls through to the return nil that
\* ends the function.
LoadLookup ==
    /\ lpc = "lookup"
    /\ IF parsed[1].Verb \notin Verbs
       THEN /\ result' = "nil"
            /\ lpc' = "ret"
            /\ UNCHANGED <<polCfg, lookups>>
       ELSE /\ polCfg' = FindConfig(parsed[1].Verb, parsed[1].Name)
            /\ lookups' = lookups + 1
            /\ IF polCfg' = <<>>
               THEN /\ result' = "panic"
                    /\ lpc' = "panicked"
               ELSE /\ lpc' = "backend"
                    /\ UNCHANGED result
    /\ UNCHANGED <<caller, ldId, parsed, ctxDone, bktVars, streamOpen, payload,
                   envelope, backendOps, backendReq, destCalls, opens, closes,
                   failedAt, producedAt, fetchVars, refVars, storeCalls>>

\* The bucket call of a case is made: it is counted and its arguments noted.
\* A call made with a cancelled ctx fails.
BucketCall(op, off, len, ok) ==
    /\ ctxDone => ~ok
    /\ backendOps' = backendOps + 1
    /\ backendReq' = Append(backendReq,
                            [op |-> op, name |-> parsed[1].Name, off |-> off, len |-> len])

\* Mutant of BucketErr: a failed bucket call is made again.
BucketErr_Retries ==
    /\ result' = "none"
    /\ failedAt' = "none"
    /\ lpc' = "backend"

\* if err != nil { return err } after a bucket call
BucketErr ==
    /\ result' = "err"
    /\ failedAt' = "backend"
    /\ lpc' = "ret"

\* attrs, err := bucket.Attributes(ctx, parsedData.Name)
LoadAttributes ==
    /\ lpc = "backend" /\ parsed[1].Verb = AttributesVerb
    /\ \E ok \in BOOLEAN :
        /\ BucketCall("Attributes", 0, 0, ok)
        /\ IF ok
           THEN /\ \E a \in AttrValues : attrs' = a
                /\ lpc' = "marshal"
                /\ UNCHANGED <<result, failedAt>>
           ELSE /\ BucketErr
                /\ UNCHANGED attrs
    /\ UNCHANGED <<caller, ldId, parsed, polCfg, ctxDone, list, delivered, exists, stream,
                   streamOpen, payload, envelope, destCalls, opens, closes,
                   producedAt, lookups, fetchVars, refVars, storeCalls>>

\* Mutant of IterCallback: a name already in the list is not appended again.
RECURSIVE IterCallback_Dedups(_, _)
IterCallback_Dedups(acc, names) ==
    IF names = <<>> THEN acc
    ELSE IF \E i \in 1..Len(acc) : acc[i] = names[1]
         THEN IterCallback_Dedups(acc, Tail(names))
         ELSE IterCallback_Dedups(Append(acc, names[1]), Tail(names))

\* The callback handed to bucket.Iter, run on each delivered name in turn:
\* list = append(list, s)
RECURSIVE IterCallback(_, _)
IterCallback(acc, names) ==
    IF names = <<>> THEN acc
    ELSE IterCallback(Append(acc, names[1]), Tail(names))

\* bucket.Iter(ctx, parsedData.Name, func(s string) error { list = append(list, s) ... })
\* A failing Iter may have delivered some names before it failed.
LoadIter ==
    /\ lpc = "backend" /\ parsed[1].Verb = IterVerb
    /\ \E ok \in BOOLEAN :
        /\ BucketCall("Iter", 0, 0, ok)
        /\ \E d \in IterLists :
            /\ delivered' = d
            /\ list' = IterCallback(<<>>, d)
        /\ IF ok
           THEN /\ lpc' = "marshal"
                /\ UNCHANGED <<result, failedAt>>
           ELSE BucketErr
    /\ UNCHANGED <<caller, ldId, parsed, polCfg, ctxDone, attrs, exists, stream,
                   streamOpen, payload, envelope, destCalls, opens, closes,
                   producedAt, lookups, fetchVars, refVars, storeCalls>>

\* The stream a Get or GetRange returned is open; its Close is deferred.
StreamOpened ==
    /\ \E s \in StreamValues : stream' = s
    /\ streamOpen' = TRUE
    /\ opens' = opens + 1
    /\ lpc' = "read"
    /\ UNCHANGED <<result, failedAt>>

\* rc, err := bucket.Get(ctx, parsedData.Name); defer runutil.CloseWithLogOnErr(...)
LoadGet ==
    /\ lpc = "backend" /\ parsed[1].Verb = ContentVerb
    /\ \E ok \in BOOLEAN :
        /\ BucketCall("Get", 0, 0, ok)
        /\ IF ok
           THEN StreamOpened
           ELSE /\ BucketErr
                /\ UNCHANGED <<stream, streamOpen, opens>>
    /\ UNCHANGED <<caller, ldId, parsed, polCfg, ctxDone, attrs, list, delivered, exists,
                   payload, envelope, destCalls, closes, producedAt, lookups, fetchVars, refVars, storeCalls>>

\* exists, err := bucket.Exists(ctx, parsedData.Name)
LoadExists ==
    /\ lpc = "backend" /\ parsed[1].Verb = ExistsVerb
    /\ \E ok \in BOOLEAN :
        /\ BucketCall("Exists", 0, 0, ok)
        /\ IF ok
           THEN /\ \E b \in BOOLEAN : exists' = b
                /\ lpc' = "marshal"
                /\ UNCHANGED <<result, failedAt>>
           ELSE /\ BucketErr
                /\ UNCHANGED exists
    /\ UNCHANGED <<caller, ldId, parsed, polCfg, ctxDone, attrs, list, delivered, stream,
                   streamOpen, payload, envelope, destCalls, opens, closes,
                   producedAt, lookups, fetchVars, refVars, storeCalls>>

\* Mutant of LoadGetRange: the end offset is passed as the length.
LoadGetRange_EndAsLength ==
    /\ lpc = "backend" /\ parsed[1].Verb = SubrangeVerb
    /\ \E ok \in BOOLEAN :
        /\ BucketCall("GetRange", parsed[1].Start, parsed[1].End, ok)
        /\ IF ok
           THEN StreamOpened
           ELSE /\ BucketErr
                /\ UNCHANGED <<stream, streamOpen, opens>>
    /\ UNCHANGED <<caller, ldId, parsed, polCfg, ctxDone, attrs, list, delivered, exists,
                   payload, envelope, destCalls, closes, producedAt, lookups, fetchVars, refVars, storeCalls>>

\* rc, err := bucket.GetRange(ctx, parsedData.Name, parsedData.Start,
\*                            parsedData.End-parsedData.Start); defer Close
LoadGetRange ==
    /\ lpc = "backend" /\ parsed[1].Verb = SubrangeVerb
    /\ \E ok \in BOOLEAN :
        /\ BucketCall("GetRange", parsed[1].Start, parsed[1].End - parsed[1].Start, ok)
        /\ IF ok
           THEN StreamOpened
           ELSE /\ BucketErr
                /\ UNCHANGED <<stream, streamOpen, opens>>
    /\ UNCHANGED <<caller, ldId, parsed, polCfg, ctxDone, attrs, list, delivered, exists,
                   payload, envelope, destCalls, closes, producedAt, lookups, fetchVars, refVars, storeCalls>>

\* Mutant of LoadMarshal: an object that does not exist is reported as loaded
\* without anything being written.
LoadMarshal_SkipsAbsent ==
    /\ lpc = "marshal"
    /\ payload' = CASE parsed[1].Verb = AttributesVerb -> MarshalAttrs(attrs)
                    [] parsed[1].Verb = IterVerb -> MarshalList(list)
                    [] parsed[1].Verb = ExistsVerb -> FormatBool(exists)
    /\ IF parsed[1].Verb = ExistsVerb /\ ~exists
       THEN /\ result' = "nil"
            /\ lpc' = "ret"
       ELSE /\ lpc' = "write"
            /\ UNCHANGED result
    /\ UNCHANGED <<caller, ldId, parsed, polCfg, ctxDone, bktVars, streamOpen,
                   envelope, backendOps, backendReq, destCalls, opens,
                   closes, failedAt, producedAt, lookups, fetchVars, refVars, storeCalls>>

\* json.Marshal(attrs), json.Marshal(list), []byte(strconv.FormatBool(exists)):
\* none of the three fails on these types.
LoadMarshal ==
    /\ lpc = "marshal"
    /\ payload' = CASE parsed[1].Verb = AttributesVerb -> MarshalAttrs(attrs)
                    [] parsed[1].Verb = IterVerb -> MarshalList(list)
                    [] parsed[1].Verb = ExistsVerb -> FormatBool(exists)
    /\ lpc' = "write"
    /\ UNCHANGED <<caller, ldId, parsed, polCfg, ctxDone, bktVars, streamOpen,
                   envelope, result, backendOps, backendReq, destCalls, opens,
                   closes, failedAt, producedAt, lookups, fetchVars, refVars, storeCalls>>

\* Mutant of LoadReadAll: the read error is dropped and what was read is written.
LoadReadAll_IgnoresErr ==
    /\ lpc = "read"
    /\ \E ok \in BOOLEAN :
        /\ ctxDone => ~ok
        /\ payload' = IF ok THEN stream ELSE ""
        /\ failedAt' = IF ok THEN failedAt ELSE "read"
        /\ lpc' = "write"
        /\ UNCHANGED result
    /\ UNCHANGED <<caller, ldId, parsed, polCfg, ctxDone, bktVars, streamOpen,
                   envelope, backendOps, backendReq, destCalls, opens, closes,
                   producedAt, lookups, fetchVars, refVars, storeCalls>>

\* Mutant of LoadReadAll: the stream is closed by hand after a good read only,
\* so the error return leaves it open.
LoadReadAll_SkipsClose ==
    /\ lpc = "read"
    /\ \E ok \in BOOLEAN :
        /\ ctxDone => ~ok
        /\ IF ok
           THEN /\ payload' = stream
                /\ lpc' = "write"
                /\ UNCHANGED <<result, failedAt>>
           ELSE /\ result' = "err"
                /\ failedAt' = "read"
                /\ lpc' = "ret"
                /\ UNCHANGED payload
    /\ UNCHANGED <<caller, ldId, parsed, polCfg, ctxDone, bktVars, streamOpen,
                   envelope, backendOps, backendReq, destCalls, opens, closes,
                   producedAt, lookups, fetchVars, refVars, storeCalls>>

\* b, err := ioutil.ReadAll(rc); if err != nil { return err }
\* Reading a stream whose ctx is cancelled fails.
LoadReadAll ==
    /\ lpc = "read"
    /\ \E ok \in BOOLEAN :
        /\ ctxDone => ~ok
        /\ IF ok
           THEN /\ payload' = stream
                /\ lpc' = "write"
                /\ UNCHANGED <<result, failedAt>>
           ELSE /\ result' = "err"
                /\ failedAt' = "read"
                /\ lpc' = "close"
                /\ UNCHANGED payload
    /\ UNCHANGED <<caller, ldId, parsed, polCfg, ctxDone, bktVars, streamOpen,
                   envelope, backendOps, backendReq, destCalls, opens, closes,
                   producedAt, lookups, fetchVars, refVars, storeCalls>>

\* Mutant of LoadWrite: the duration itself is passed as the expiry.
LoadWrite_ExpiryIsTTL ==
    /\ lpc = "write"
    /\ \E now \in 0..MaxNow, ok \in BOOLEAN :
        /\ caller = "fetch" => ok
        /\ producedAt' = now
        /\ IF ok
           THEN /\ envelope' = <<[data |-> payload,
                                  expire |-> TTLFor(parsed[1].Verb, polCfg[1], exists)]>>
                /\ result' = "nil"
                /\ UNCHANGED failedAt
           ELSE /\ result' = "err"
                /\ failedAt' = "write"
                /\ UNCHANGED envelope
    /\ destCalls' = destCalls + 1
    /\ lpc' = IF streamOpen THEN "close" ELSE "ret"
    /\ UNCHANGED <<caller, ldId, parsed, polCfg, ctxDone, bktVars, streamOpen,
                   payload, backendOps, backendReq, opens, closes, lookups,
                   fetchVars, refVars, storeCalls>>

\* return dest.UnmarshalBinary(payload, time.Now().Add(ttl)).  The ByteCodec
\* that Fetch passes never fails; another Codec may.
LoadWrite ==
    /\ lpc = "write"
    /\ \E now \in 0..MaxNow, ok \in BOOLEAN :
        /\ caller = "fetch" => ok
        /\ producedAt' = now
        /\ IF ok
           THEN /\ envelope' = <<[data |-> payload,
                                  expire |-> now + TTLFor(parsed[1].Verb, polCfg[1], exists)]>>
                /\ result' = "nil"
                /\ UNCHANGED failedAt
           ELSE /\ result' = "err"
                /\ failedAt' = "write"
                /\ UNCHANGED envelope
    /\ destCalls' = destCalls + 1
    /\ lpc' = IF streamOpen THEN "close" ELSE "ret"
    /\ UNCHANGED <<caller, ldId, parsed, polCfg, ctxDone, bktVars, streamOpen,
                   payload, backendOps, backendReq, opens, closes, lookups,
                   fetchVars, refVars, storeCalls>>

\* The deferred runutil.CloseWithLogOnErr(logger, rc, ...) runs on the way out.
LoadClose ==
    /\ lpc = "close"
    /\ closes' = closes + 1
    /\ streamOpen' = FALSE
    /\ lpc' = "ret"
    /\ UNCHANGED <<caller, ldId, parsed, polCfg, ctxDone, bktVars, payload,
                   envelope, result, backendOps, backendReq, destCalls, opens,
                   failedAt, producedAt, lookups, fetchVars, refVars, storeCalls>>

(***************************************************************************)
(* Groupcache.Fetch.                                                       *)
(***************************************************************************)
KeyLists == UNION {[1..n -> FetchKeys] : n \in 0..MaxKeys}

FetchInit ==
    /\ fpc = "idle"
    /\ fKeys = <<>>
    /\ fIdx = 1
    /\ data = <<>>
    /\ loadLog = <<>>

\* data[k] = v
MapPut(m, k, v) == [x \in DOMAIN m \cup {k} |-> IF x = k THEN v ELSE m[x]]

\* Fetch is called: data := map[string][]byte{}
FetchStart ==
    /\ fpc \in {"idle", "done"} /\ lpc = "idle"
    /\ \E ks \in KeyLists, c \in BOOLEAN :
        /\ fKeys' = ks
        /\ ctxDone' = c
    /\ fIdx' = 1
    /\ data' = <<>>
    /\ loadLog' = <<>>
    /\ fpc' = "loop"
    /\ UNCHANGED <<lpc, caller, ldId, parsed, polCfg, bktVars, streamOpen, payload,
                   envelope, result, backendOps, backendReq, destCalls, opens,
                   closes, failedAt, producedAt, lookups, refVars, storeCalls>>

\* codec := galaxycache.ByteCodec{}; c.galaxy.Get(ctx, k, &codec) runs the getter.
FetchGet ==
    /\ fpc = "loop" /\ fIdx <= Len(fKeys)
    /\ fpc' = "get"
    /\ ldId' = fKeys[fIdx]
    /\ caller' = "fetch"
    /\ lpc' = "parse"
    /\ FreshLocals
    /\ UNCHANGED <<ctxDone, fKeys, fIdx, data, loadLog, refVars, storeCalls>>

\* The bytes codec.MarshalBinary() returns: what the getter wrote, if anything.
RetrievedData == IF envelope = <<>> THEN "" ELSE envelope[1].data

\* Mutant of FetchAfterGet: an error of galaxy.Get leaves the loop.
FetchAfterGet_BreaksOnErr ==
    /\ fpc = "get" /\ lpc = "ret"
    /\ data' = IF result = "nil" /\ Len(RetrievedData) > 0
               THEN MapPut(data, fKeys[fIdx], RetrievedData)
               ELSE data
    /\ loadLog' = Append(loadLog, [key |-> fKeys[fIdx], ok |-> result = "nil",
                                   bytes |-> RetrievedData])
    /\ fIdx' = IF result = "nil" THEN fIdx + 1 ELSE Len(fKeys) + 1
    /\ fpc' = "loop"
    /\ lpc' = "idle"
    /\ caller' = "none"
    /\ ldId' = <<>>
    /\ FreshLocals
    /\ UNCHANGED <<ctxDone, fKeys, refVars, storeCalls>>

\* Mutant of FetchAfterGet: the bytes are put in data whatever their length.
FetchAfterGet_StoresEmpty ==
    /\ fpc = "get" /\ lpc = "ret"
    /\ data' = IF result = "nil"
               THEN MapPut(data, fKeys[fIdx], RetrievedData)
               ELSE data
    /\ loadLog' = Append(loadLog, [key |-> fKeys[fIdx], ok |-> result = "nil",
                                   bytes |-> RetrievedData])
    /\ fIdx' = fIdx + 1
    /\ fpc' = "loop"
    /\ lpc' = "idle"
    /\ caller' = "none"
    /\ ldId' = <<>>
    /\ FreshLocals
    /\ UNCHANGED <<ctxDone, fKeys, refVars, storeCalls>>

\* galaxy.Get has returned: on an error the key is skipped, else the bytes are
\* put in data when there are any.
FetchAfterGet ==
    /\ fpc = "get" /\ lpc = "ret"
    /\ data' = IF result = "nil" /\ Len(RetrievedData) > 0
               THEN MapPut(data, fKeys[fIdx], RetrievedData)
               ELSE data
    /\ loadLog' = Append(loadLog, [key |-> fKeys[fIdx], ok |-> result = "nil",
                                   bytes |-> RetrievedData])
    /\ fIdx' = fIdx + 1
    /\ fpc' = "loop"
    /\ lpc' = "idle"
    /\ caller' = "none"
    /\ ldId' = <<>>
    /\ FreshLocals
    /\ UNCHANGED <<ctxDone, fKeys, refVars, storeCalls>>

\* return data
FetchReturn ==
    /\ fpc = "loop" /\ fIdx > Len(fKeys)
    /\ fpc' = "done"
    /\ UNCHANGED <<loadVars, fKeys, fIdx, data, loadLog, refVars, storeCalls>>

\* Mutant of Store: the bytes handed over are kept and show up in the result
\* of the Fetch under way.
Store_KeepsData ==
    /\ storeCalls < MaxStores
    /\ \E k \in FetchKeys, v \in StreamValues, ttl \in 0..MaxNow :
        data' = MapPut(data, k, v)
    /\ storeCalls' = storeCalls + 1
    /\ UNCHANGED <<refVars, loadVars, fpc, fKeys, fIdx, loadLog>>

\* Groupcache.Store(ctx, data, ttl): a no-op, whatever it is given.
Store ==
    /\ storeCalls < MaxStores
    /\ \E k \in FetchKeys, v \in StreamValues, ttl \in 0..MaxNow :
        storeCalls' = storeCalls + 1
    /\ UNCHANGED <<refVars, loadVars, fetchVars>>

NextLoad ==
    \/ Store
    \/ EngineLoad
    \/ EngineReturn
    \/ Cancel
    \/ LoadParse
    \/ LoadLookup
    \/ LoadAttributes
    \/ LoadIter
    \/ LoadGet
    \/ LoadExists
    \/ LoadGetRange
    \/ LoadMarshal
    \/ LoadReadAll
    \/ LoadWrite
    \/ LoadClose
    \/ FetchStart
    \/ FetchGet
    \/ FetchAfterGet
    \/ FetchReturn

Init == RefreshInit /\ LoadInit /\ FetchInit /\ storeCalls = 0

\* The loop as the code leaves it: nothing bounds the time Resolve takes.
SpecRefresh == Init /\ [][NextRefresh]_vars

\* Ticks keep coming and the goroutine takes its own steps; whether Resolve
\* returns is up to the resolver (called with context.Background()).
SpecRefreshFair ==
    /\ Init /\ [][NextRefresh]_vars
    /\ WF_vars(Tick)
    /\ WF_vars(SetPeers)
    /\ WF_vars(WaitTick)

\* As SpecRefreshFair, with every Resolve call returning.
SpecRefreshLive ==
    /\ SpecRefreshFair
    /\ WF_vars(ResolveOk \/ ResolveFail)

\* Loader invocations and Fetch calls.
SpecLoad == Init /\ [][NextLoad]_vars

(***************************************************************************)
(* Properties.                                                             *)
(***************************************************************************)

\* C1: when Resolve fails in an iteration, that iteration calls universe.Set
\* not at all, and the published peer set at the end of the iteration is the
\* one the previous iteration left.
C1_FailedResolveKeepsPeers ==
    lastResolve = "fail" => (setCalls = 0 /\ lastSet = "none" /\ peers = peersBefore)

\* C1 witness: a later iteration failed to resolve while a non-empty set,
\* different from what the provider now holds, stays published.
C1_Witness ==
    /\ refPc = "wait" /\ lastResolve = "fail" /\ iter > 1
    /\ peers # {} /\ provAddrs # peers

\* C2: when the bucket operation or the read of the returned stream fails,
\* the loader returns an error and dest.UnmarshalBinary is never called, so
\* dest holds no envelope.
C2_BackendFailureWritesNothing ==
    failedAt \in {"backend", "read"} =>
        (result = "err" /\ destCalls = 0 /\ envelope = <<>> /\ lpc \in {"close", "ret"})

\* C2 witness: the read of an opened, non-empty stream failed and the loader
\* has returned.
C2_Witness ==
    /\ lpc = "ret" /\ failedAt = "read" /\ stream # "" /\ backendOps = 1

\* C3: the expiry of an Exists envelope is the exists-TTL when the bucket said
\* true and the absent-TTL when it said false, and the payload is the text of
\* that boolean.
C3_ExistsTTLFollowsResult ==
    (envelope # <<>> /\ parsed[1].Verb = ExistsVerb) =>
        LET entry == FindExistConfig(parsed[1].Name)[1]
            ttl == envelope[1].expire - producedAt
        IN  /\ exists => (ttl = entry.ExistsTTL /\ envelope[1].data = "true")
            /\ ~exists => (ttl = entry.DoesntExistTTL /\ envelope[1].data = "false")

\* C3 witness: an Exists load whose bucket answered true produced an envelope,
\* under a policy whose two TTLs differ.
C3_Witness ==
    /\ envelope # <<>> /\ parsed[1].Verb = ExistsVerb /\ exists
    /\ FindExistConfig(parsed[1].Name)[1].ExistsTTL
         # FindExistConfig(parsed[1].Name)[1].DoesntExistTTL

\* C4: a decoded key whose policy lookup finds no entry ends the load in a
\* panic, which is not an error return, with no bucket operation invoked and
\* no envelope written; and a load panics for no other reason.
C4_MissingPolicyPanics ==
    /\ (result = "panic") <=> (lpc = "panicked")
    /\ lpc = "panicked" =>
        /\ parsed # <<>>
        /\ FindConfig(parsed[1].Verb, parsed[1].Name) = <<>>
        /\ backendOps = 0 /\ destCalls = 0 /\ envelope = <<>>
    /\ (parsed # <<>> /\ lpc # "lookup"
            /\ FindConfig(parsed[1].Verb, parsed[1].Name) = <<>>) => lpc = "panicked"

\* C4 witness: a Subrange key for an unconfigured name has panicked.
C4_Witness ==
    lpc = "panicked" /\ parsed[1].Verb = SubrangeVerb

\* C5 as stated: every invocation performs exactly one bucket operation,
\* whatever the key and the outcome.
C5_ExactlyOneBackendOp ==
    lpc \in {"ret", "panicked"} => backendOps = 1

\* C5 as amended: an invocation performs at most one bucket operation: exactly
\* one when the key decodes and its policy entry is found, none when the
\* decoding fails or the policy lookup panics.
C5_AtMostOneBackendOp ==
    /\ backendOps <= 1
    /\ lpc = "ret" => backendOps = (IF parsed = <<>> THEN 0 ELSE 1)
    /\ lpc = "panicked" => backendOps = 0

\* C5 witness: an invocation returned a decode error without any bucket operation.
C5_Witness ==
    lpc = "ret" /\ failedAt = "parse" /\ backendOps = 0 /\ result = "err"

\* C6 as stated: after a resolve attempt has started, a further attempt
\* starts, even if the first never returns.
C6_HungResolveDoesNotStall ==
    \A b \in 0..1 : (refPc = "resolve" /\ attemptBit = b) ~> (attemptBit = 1 - b)

\* C7 as stated: once the ctx of a load is cancelled, the load writes no
\* envelope to dest.
C7_CancelledLoadWritesNothing ==
    [][ctxDone => destCalls' <= destCalls]_vars

\* C8: a Content or Subrange load closes the stream it opened exactly once
\* before it returns, on every exit path, and closes nothing when the open
\* failed.
C8_StreamClosedExactlyOnce ==
    /\ closes <= opens /\ opens <= 1
    /\ streamOpen <=> (opens = 1 /\ closes = 0)
    /\ lpc = "ret" => (~streamOpen /\ closes = opens)
    /\ failedAt = "backend" => (opens = 0 /\ closes = 0)
    /\ (lpc = "ret" /\ parsed # <<>> /\ failedAt # "backend") =>
            (opens = 1 <=> parsed[1].Verb \in StreamVerbs)

\* C8 witness: the envelope write of a stream load failed and the load
\* returned with its stream closed.
C8_Witness ==
    /\ lpc = "ret" /\ failedAt = "write" /\ opens = 1 /\ closes = 1
    /\ parsed[1].Verb \in StreamVerbs

\* C9: the loop never ends: resolve attempts start again and again, also
\* after an iteration whose resolve failed and after one whose publish failed,
\* and the loop leaves its wait only by taking one tick into the next Resolve.
C9_LoopNeverStops ==
    /\ \A b \in 0..1 : []<>(refPc = "resolve" /\ attemptBit = b)
    /\ (refPc = "wait" /\ lastResolve = "fail") ~> (refPc = "resolve")
    /\ (refPc = "wait" /\ lastSet = "fail") ~> (refPc = "resolve")
    /\ [][(refPc = "wait" /\ refPc' # "wait") =>
            (tickPending /\ ~tickPending' /\ refPc' = "resolve")]_vars

\* C9 witness: a resolve attempt is running right after an iteration whose
\* publish failed.
C9_Witness ==
    refPc = "resolve" /\ prevIter = "setFail" /\ ticksTaken >= 2

\* C10: when Fetch returns, every requested key was tried; a key with no
\* successful non-empty load is absent from the result, and every key with one
\* is present with the bytes of its (last such) load, whatever failed before
\* or after it in the list.
C10_FailedKeyAffectsOnlyItself ==
    LET good(i) == loadLog[i].ok /\ Len(loadLog[i].bytes) > 0
    IN  /\ fpc = "done" =>
            /\ Len(loadLog) = Len(fKeys)
            /\ \A i \in 1..Len(fKeys) : loadLog[i].key = fKeys[i]
        /\ \A i \in 1..Len(loadLog) :
            (good(i) /\ \A j \in (i + 1)..Len(loadLog) :
                            ~(loadLog[j].key = loadLog[i].key /\ good(j)))
                => (loadLog[i].key \in DOMAIN data
                    /\ data[loadLog[i].key] = loadLog[i].bytes)
        /\ \A k \in DOMAIN data :
            \E i \in 1..Len(loadLog) : loadLog[i].key = k /\ good(i)

\* C10 witness: Fetch returned for two keys, the first failed, the second is
\* in the result.
C10_Witness ==
    /\ fpc = "done" /\ Len(fKeys) = 2 /\ fKeys[1] # fKeys[2]
    /\ ~loadLog[1].ok /\ loadLog[2].ok
    /\ fKeys[2] \in DOMAIN data /\ fKeys[1] \notin DOMAIN data

\* C11: when decoding the raw key fails, the loader returns an error at once:
\* no policy lookup, no bucket operation and no envelope write is performed.
C11_DecodeFailureDoesNothing ==
    /\ failedAt = "parse" =>
        /\ lpc = "ret" /\ result = "err" /\ parsed = <<>>
        /\ lookups = 0 /\ polCfg = <<>>
        /\ backendOps = 0 /\ backendReq = <<>>
        /\ destCalls = 0 /\ envelope = <<>>
    /\ (lpc \notin {"idle", "parse"} /\ ParseBucketCacheKey(ldId) = <<>>) => failedAt = "parse"

\* C11 witness: a Subrange key with a non-numeric offset was refused.
C11_Witness ==
    /\ lpc = "ret" /\ failedAt = "parse" /\ Len(ldId) = 4 /\ ldId[1] = SubrangeVerb

\* C12: the membership view that a request-path reader finds is, at every
\* moment, a whole published set: the one the previous iteration left, or the
\* one this iteration's universe.Set call put in place; never a mixture.
C12_ViewIsAWholeSet ==
    /\ lastSet = "ok" => peers = provAddrs
    /\ lastSet # "ok" => peers = peersBefore

\* C12 witness: a publish replaced a non-empty set by a disjoint non-empty one.
C12_Witness ==
    /\ lastSet = "ok" /\ peers = provAddrs
    /\ peers # {} /\ peersBefore # {} /\ peers \cap peersBefore = {}

\* C13: a Subrange load makes one bucket request, GetRange with offset =
\* start and length = end - start of the decoded key, and the payload of its
\* envelope is the bytes read from the stream that request returned.
C13_SubrangeRequestAndPayload ==
    (parsed # <<>> /\ lpc \in {"read", "write", "close", "ret"}
        /\ parsed[1].Verb = SubrangeVerb) =>
        /\ backendReq = <<[op |-> "GetRange", name |-> parsed[1].Name,
                           off |-> parsed[1].Start,
                           len |-> parsed[1].End - parsed[1].Start]>>
        /\ backendOps = 1
        /\ envelope # <<>> => envelope[1].data = stream

\* C13 witness: the key subrange:a:1:2 was loaded into an envelope with the
\* bytes of a non-empty stream.
C13_Witness ==
    /\ lpc = "ret" /\ envelope # <<>> /\ stream # ""
    /\ parsed[1].Verb = SubrangeVerb /\ parsed[1].Start = 1 /\ parsed[1].End = 2

\* C14: the expiry of every envelope is the time it was produced plus the
\* duration the matched policy entry configures for the decoded verb (one of
\* the two Exists durations for Exists); with positive durations it lies
\* strictly after the time of production.
C14_ExpiryIsNowPlusTTL ==
    envelope # <<>> =>
        LET verb == parsed[1].Verb
            name == parsed[1].Name
            configured ==
                CASE verb = AttributesVerb -> {FindAttributesConfig(name)[1].TTL}
                  [] verb = IterVerb -> {FindIterConfig(name)[1].TTL}
                  [] verb = ContentVerb -> {FindGetConfig(name)[1].ContentTTL}
                  [] verb = ExistsVerb -> {FindExistConfig(name)[1].ExistsTTL,
                                           FindExistConfig(name)[1].DoesntExistTTL}
                  [] verb = SubrangeVerb -> {FindGetRangeConfig(name)[1].SubrangeTTL}
        IN  /\ envelope[1].expire - producedAt \in configured
            /\ (\A t \in configured : t > 0) => envelope[1].expire > producedAt

\* C14 witness: an Attributes envelope was produced at a time other than 0.
C14_Witness ==
    /\ envelope # <<>> /\ parsed[1].Verb = AttributesVerb /\ producedAt > 0
    /\ envelope[1].expire = producedAt + FindAttributesConfig(parsed[1].Name)[1].TTL

\* C15: within an iteration universe.Set is called at most once, only after
\* the Resolve of that iteration returned without error, and what it
\* publishes is the provider's address list as that Resolve left it; the view
\* changes in no other way.
C15_PublishFollowsSuccessfulResolve ==
    /\ [](/\ setCalls <= 1
          /\ setCalls = 1 => lastResolve = "ok"
          /\ refPc = "publish" => (lastResolve = "ok" /\ setCalls = 0))
    /\ [][setCalls' > setCalls =>
            (refPc = "publish" /\ lastResolve = "ok" /\ setCalls = 0)]_vars
    /\ [][peers' # peers =>
            (setCalls' = setCalls + 1 /\ lastResolve = "ok" /\ peers' = provAddrs)]_vars

\* C15 witness: in a later iteration a successful Resolve was followed by one
\* publish of a set that differs from the one published before.
C15_Witness ==
    /\ iter > 1 /\ refPc = "wait" /\ setCalls = 1 /\ lastResolve = "ok"
    /\ lastSet = "ok" /\ peers # peersBefore /\ peers # PeerUniverse

\* C16: the payload of a List envelope is the serialisation of the names the
\* bucket delivered, in the order of delivery, and of no other list of names;
\* an enumeration that fails writes no envelope, whatever it delivered before.
C16_ListKeepsDeliveredOrder ==
    /\ (envelope # <<>> /\ parsed[1].Verb = IterVerb) =>
        /\ envelope[1].data = MarshalList(delivered)
        /\ \A l \in IterLists : MarshalList(l) = envelope[1].data => l = delivered
    /\ (parsed # <<>> /\ failedAt = "backend" /\ parsed[1].Verb = IterVerb) =>
        (envelope = <<>> /\ destCalls = 0 /\ payload = "")

\* C16 witness: the bucket delivered two names out of lexical order, and they
\* are in the envelope.
C16_Witness ==
    /\ envelope # <<>> /\ parsed[1].Verb = IterVerb
    /\ delivered = <<"a/y", "a/x">>
    /\ envelope[1].data = "[\"a/y\",\"a/x\"]"

\* C17: a call of Store changes nothing: the membership view, the loader's
\* and Fetch's state, and with them the result of every later Fetch, are as
\* they were before the call.
C17_StoreChangesNothing ==
    [][storeCalls' # storeCalls => UNCHANGED <<refVars, loadVars, fetchVars>>]_vars

\* C17 witness: a Fetch returned a non-empty result after Store had been called.
C17_Witness ==
    storeCalls > 0 /\ fpc = "done" /\ data # <<>>

\* C18: the loader reports success only with an envelope: whenever it returns
\* nil, dest.UnmarshalBinary was called exactly once, with the payload and an
\* expiry; every verb the parser returns is one of the five the switch knows,
\* so the return nil after the switch is never the one taken.
C18_SuccessMeansEnvelope ==
    /\ result = "nil" =>
        /\ destCalls = 1 /\ envelope # <<>>
        /\ envelope[1].data = payload /\ envelope[1].expire >= producedAt
        /\ lookups = 1 /\ backendOps = 1
    /\ parsed # <<>> => parsed[1].Verb \in Verbs

\* C18 witness: a load of an object that does not exist returned nil with
\* its envelope written.
C18_Witness ==
    /\ lpc = "ret" /\ result = "nil" /\ destCalls = 1
    /\ parsed[1].Verb = ExistsVerb /\ ~exists /\ envelope[1].data = "false"

\* C19: the first resolve attempt is under way from the start, before any
\* tick is taken; each further attempt starts by taking one tick at the wait,
\* that is after the previous Resolve and its publish are over, so attempts
\* do not overlap and their number is the number of ticks taken plus one.
C19_FirstResolveAtOnceThenPerTick ==
    /\ (refPc = "resolve" /\ ticksTaken = 0 /\ ~tickPending)
    /\ [](iter < MaxIter => iter = ticksTaken + 1)
    /\ [][attemptBit' # attemptBit =>
            /\ refPc = "wait" /\ refPc' = "resolve"
            /\ tickPending /\ ~tickPending'
            /\ ticksTaken' = Min(ticksTaken + 1, MaxIter)]_vars
    /\ [][(refPc # "resolve" /\ refPc' = "resolve") => attemptBit' # attemptBit]_vars

\* C19 witness: the second attempt is under way after exactly one tick was taken.
C19_Witness ==
    refPc = "resolve" /\ iter = 2 /\ ticksTaken = 1 /\ attemptBit = 1

\* C20: the keys of the map Fetch builds are requested keys, and none of
\* them is mapped to an empty byte slice: a key whose load succeeded with a
\* payload of length 0 is left out, as a failed key is.
C20_ResultHasNoEmptyEntries ==
    /\ \A k \in DOMAIN data :
        /\ \E i \in 1..Len(fKeys) : fKeys[i] = k
        /\ Len(data[k]) > 0
    /\ \A i \in 1..Len(loadLog) :
        (/\ loadLog[i].ok /\ Len(loadLog[i].bytes) = 0
         /\ \A j \in 1..Len(loadLog) :
                loadLog[j].key = loadLog[i].key => Len(loadLog[j].bytes) = 0)
            => loadLog[i].key \notin DOMAIN data

\* C20 witness: Fetch returned an empty map for one key whose load succeeded
\* with zero bytes.
C20_Witness ==
    /\ fpc = "done" /\ Len(fKeys) = 1 /\ loadLog[1].ok
    /\ loadLog[1].bytes = "" /\ data = <<>>

====
